---------------------------- MODULE Spec2Model ----------------------------
(***************************************************************************)
(* Model of matrix.py (sublime-matrix): parsing and validation of the      *)
(* selected text, rendering, the seven matrix commands of MatrixopCommand  *)
(* and the Gauss-Jordan loop of _rref.                                      *)
(*                                                                         *)
(* A number is an exact rational <<numerator, denominator>> in lowest      *)
(* terms with a positive denominator, or a binary64 float <<s, m, e>>.     *)
(* Spec, SpecRref and SpecParse run on rationals: their properties are     *)
(* stated for entries on which the arithmetic is exact.  SpecFloat runs    *)
(* the inverse on floats, rounded as the source's arithmetic is.  Text is  *)
(* a sequence of one-character strings.  Indices h, k, pivot_row are       *)
(* 0-based as in the source; El(M, i, j) reads M[i][j].                    *)
(***************************************************************************)
EXTENDS Integers, Sequences, FiniteSets, TLC

VARIABLES
    pc,         \* position of the modelled run
    view,       \* the selected regions of the view: <<[text, sel]>>
    op,         \* the operation name given to run()
    err,        \* message given to displayError, or NoError
    A, B, C,    \* locals of the command handler on exit / matrix of _rref
    dim,        \* dim argument of _rref
    h, k,       \* loop counters of _rref
    pivot_row, pivot_val,   \* locals of the _rref loop body
    pass,       \* how many times _rref has been started on the matrix
    first,      \* result of the first _rref run
    txt,        \* argument of parseMatrix
    parsed,     \* value returned by parseMatrix
    vdim,       \* value returned by isValidMatrix
    orig        \* parse result and dimensions before a blank line was typed

vars == <<pc, view, op, err, A, B, C, dim, h, k, pivot_row, pivot_val,
          pass, first, txt, parsed, vdim, orig>>

-----------------------------------------------------------------------------
(* Bounds of the model *)

MaxRows == 2
MaxCols == 2
MaxSel == 2
MaxTextLen == 5

\* entries of the matrices the runs start from
Entries == {-1, 0, 1}
\* entries of the constant-filled matrices used where two regions are selected
Fills == {-1, 2}

\* Python's None where a matrix is expected (a valid matrix has a row)
None == <<>>
\* the value isValidMatrix returns for an invalid matrix (-1)
Invalid == <<-1>>
\* float() raised ValueError
BadNum == <<0, 0>>
\* parseMatrix returned None (not a list)
NotAList == [list |-> FALSE, rows |-> <<>>]
NoError == "NoError"

\* The element of a one-element set.  Only({F(x) : x \in {e}}) is F(e) with
\* e computed once.
Only(S) == CHOOSE x \in S : TRUE

-----------------------------------------------------------------------------
(* Exact arithmetic *)

Abs(x) == IF x < 0 THEN -x ELSE x

RECURSIVE GCD(_, _)
GCD(a, b) == IF b = 0 THEN a ELSE GCD(b, a % b)

Norm(n, d) ==
    IF d < 0 THEN <<(-n) \div GCD(Abs(n), Abs(d)), (-d) \div GCD(Abs(n), Abs(d))>>
    ELSE <<n \div GCD(Abs(n), Abs(d)), d \div GCD(Abs(n), Abs(d))>>

Rat(n) == <<n, 1>>
Zero == Rat(0)
One == Rat(1)
RAdd(x, y) == Norm(x[1] * y[2] + y[1] * x[2], x[2] * y[2])
RSub(x, y) == Norm(x[1] * y[2] - y[1] * x[2], x[2] * y[2])
RMul(x, y) == Norm(x[1] * y[1], x[2] * y[2])
RDiv(x, y) == Norm(x[1] * y[2], x[2] * y[1])
RAbs(x) == <<Abs(x[1]), x[2]>>
RGt(x, y) == x[1] * y[2] > y[1] * x[2]
RIsInt(x) == x[2] = 1

\* M[i][j] with the source's 0-based indices
El(M, i, j) == M[i + 1][j + 1]
NRows(M) == Len(M)
NCols(M) == Len(M[1])

RECURSIVE SumSeq(_)
SumSeq(s) == IF s = <<>> THEN Zero ELSE RAdd(Head(s), SumSeq(Tail(s)))

Max(S) == CHOOSE x \in S : \A y \in S : y <= x
Min(S) == CHOOSE x \in S : \A y \in S : x <= y

-----------------------------------------------------------------------------
(* Natural numbers of any size: a sequence of limbs in 0..Limb-1, the      *)
(* least significant first, with no zero limb at the top; <<>> is 0        *)

LimbBits == 13
Limb == 2 ^ LimbBits

Pow2(n) == 2 ^ n

RECURSIVE BTrim(_)
BTrim(a) ==
    IF a = <<>> THEN a
    ELSE IF a[Len(a)] = 0 THEN BTrim(SubSeq(a, 1, Len(a) - 1))
    ELSE a

\* limb i of a, 0 above its top
BLimb(a, i) == IF i >= 1 /\ i <= Len(a) THEN a[i] ELSE 0

BFromNat(n) == BTrim(<<n % Limb, (n \div Limb) % Limb, n \div (Limb * Limb)>>)

\* a < b
BLess(a, b) ==
    \E j \in 1..Max({Len(a), Len(b)}) :
        /\ BLimb(a, j) < BLimb(b, j)
        /\ \A t \in (j + 1)..Max({Len(a), Len(b)}) : BLimb(a, t) = BLimb(b, t)

\* the carry into limb i of a + b
Carry(a, b, i) ==
    IF \E j \in 1..(i - 1) :
          /\ BLimb(a, j) + BLimb(b, j) >= Limb
          /\ \A t \in (j + 1)..(i - 1) : BLimb(a, t) + BLimb(b, t) = Limb - 1
    THEN 1 ELSE 0

BAdd(a, b) ==
    BTrim([i \in 1..(Max({Len(a), Len(b)}) + 1) |->
              (BLimb(a, i) + BLimb(b, i) + Carry(a, b, i)) % Limb])

\* the borrow from limb i of a - b
Borrow(a, b, i) ==
    IF \E j \in 1..(i - 1) :
          /\ BLimb(a, j) < BLimb(b, j)
          /\ \A t \in (j + 1)..(i - 1) : BLimb(a, t) = BLimb(b, t)
    THEN 1 ELSE 0

\* a - b, for a >= b
BSub(a, b) ==
    BTrim([i \in 1..Len(a) |->
              (BLimb(a, i) - BLimb(b, i) - Borrow(a, b, i) + Limb) % Limb])

\* a times Limb^n
BUp(a, n) == IF a = <<>> \/ n = 0 THEN a ELSE [i \in 1..n |-> 0] \o a

\* a times c, for 0 <= c < Limb
BTimes(a, c) ==
    BAdd([i \in 1..Len(a) |-> (a[i] * c) % Limb],
         BUp([i \in 1..Len(a) |-> (a[i] * c) \div Limb], 1))

RECURSIVE BMulFrom(_, _, _, _)
BMulFrom(a, b, j, acc) ==
    IF j > Len(b) THEN acc
    ELSE Only({BMulFrom(a, b, j + 1, nx) :
                 nx \in {BAdd(acc, BUp(BTimes(a, b[j]), j - 1))}})

BMul(a, b) == BMulFrom(a, b, 1, <<>>)

\* a times 2^n
BShl(a, n) == BUp(BTimes(a, Pow2(n % LimbBits)), n \div LimbBits)

\* a divided by 2^n, rounded down
BShr(a, n) ==
    BTrim([i \in 1..(Len(a) - (n \div LimbBits)) |->
              (BLimb(a, i + (n \div LimbBits)) \div Pow2(n % LimbBits))
              + (BLimb(a, i + 1 + (n \div LimbBits)) % Pow2(n % LimbBits))
                    * Pow2(LimbBits - (n % LimbBits))])

\* the number of bits of a
BBits(a) ==
    IF a = <<>> THEN 0
    ELSE LimbBits * (Len(a) - 1)
         + (CHOOSE b \in 1..LimbBits : a[Len(a)] \in Pow2(b - 1)..(Pow2(b) - 1))

\* bit i of a, bit 0 the lowest
BBit(a, i) == (BLimb(a, (i \div LimbBits) + 1) \div Pow2(i % LimbBits)) % 2

\* some bit of a below bit n is set
BAnyBelow(a, n) ==
    \E i \in 1..Len(a) :
        /\ LimbBits * (i - 1) < n
        /\ IF LimbBits * i <= n THEN a[i] # 0
           ELSE a[i] % Pow2(n - LimbBits * (i - 1)) # 0

-----------------------------------------------------------------------------
(* Python's float: an IEEE 754 binary64 number <<s, m, e>> of value        *)
(* (-1)^s * m * 2^e with m of exactly Precision bits, or FZero.  The zero  *)
(* carries no sign: -0.0 and 0.0 are equal and give equal results in       *)
(* every operation used here.  Exponents stay far inside the range of the  *)
(* format for the matrices drawn below, so no overflow or subnormal number *)
(* arises.                                                                  *)

Precision == 53

FZero == <<0, <<>>, 0>>

\* the float nearest to (-1)^s * n * 2^e, ties to the even mantissa
FShort(s, n, e, up) == <<s, BShl(n, up), e - up>>
FCarried(s, q, e) ==
    IF BBits(q) > Precision THEN <<s, BShr(q, 1), e + 1>> ELSE <<s, q, e>>
FCut(s, n, e, sh) ==
    Only({FCarried(s,
                   IF BBit(n, sh - 1) = 1 /\ (BAnyBelow(n, sh - 1) \/ q[1] % 2 = 1)
                   THEN BAdd(q, <<1>>) ELSE q,
                   e + sh) : q \in {BShr(n, sh)}})
FRoundBits(s, n, e, bits) ==
    IF bits = 0 THEN FZero
    ELSE IF bits <= Precision THEN FShort(s, n, e, Precision - bits)
    ELSE FCut(s, n, e, bits - Precision)
FRound(s, n, e) == Only({FRoundBits(s, nn, e, BBits(nn)) : nn \in {n}})

\* float(n) of an integer n
FromInt(n) == FRound(IF n < 0 THEN 1 ELSE 0, BFromNat(Abs(n)), 0)

FIsZero(x) == x[2] = <<>>
FAbs(x) == <<0, x[2], x[3]>>
FNeg(x) == IF FIsZero(x) THEN x ELSE <<1 - x[1], x[2], x[3]>>

\* |x| > |y|
FBigger(x, y) ==
    IF FIsZero(x) THEN FALSE
    ELSE IF FIsZero(y) THEN TRUE
    ELSE x[3] > y[3] \/ (x[3] = y[3] /\ BLess(y[2], x[2]))

FGt(x, y) ==
    IF x[1] = 0 /\ y[1] = 0 THEN FBigger(x, y)
    ELSE IF x[1] = 0 /\ y[1] = 1 THEN TRUE
    ELSE IF x[1] = 1 /\ y[1] = 0 THEN FALSE
    ELSE FBigger(y, x)

FMul(x, y) ==
    IF FIsZero(x) \/ FIsZero(y) THEN FZero
    ELSE FRound((x[1] + y[1]) % 2, BMul(x[2], y[2]), x[3] + y[3])

\* the digit c with c * d <= r < (c + 1) * d, for a guess est that is c,
\* c + 1 or c + 2
DigitNear(r, d, est) ==
    CHOOSE c \in {est - 2, est - 1, est} :
        c >= 0 /\ ~BLess(r, BTimes(d, c)) /\ BLess(r, BTimes(d, c + 1))

\* r divided by d, rounded down, for r < d * Limb and a d whose top limb is
\* Limb / 2 or more: the guess from the top limbs is at most 2 too large
Digit(r, d) ==
    IF BLess(r, d) THEN 0
    ELSE DigitNear(r, d,
                   Min({Limb - 1,
                        (BLimb(r, Len(d) + 1) * Limb + BLimb(r, Len(d)))
                            \div d[Len(d)]}))

\* the long division of r * Limb^n by d, for r < d: <<quotient, remainder>>
RECURSIVE DivLoop(_, _, _, _)
DivLoop(r, q, d, n) ==
    IF n = 0 THEN <<q, r>>
    ELSE Only({
           Only({DivLoop(r3, q3, d, n - 1) :
                   r3 \in {BSub(r2, BTimes(d, c))},
                   q3 \in {BAdd(BUp(q, 1), BFromNat(c))}}) :
           r2 \in {BUp(r, 1)}, c \in {Digit(BUp(r, 1), d)}})

\* the bits a mantissa leaves free in its top limb
TopFill == LimbBits - (Precision % LimbBits)
\* the limbs of the quotient that are computed
QuotLimbs == 6
\* the bits the quotient has below the units of x[2] / y[2]: enough for the
\* rounding to cut at least two
QuotBits == LimbBits * QuotLimbs - TopFill

\* the quotient with a last bit that is set when the division left a
\* remainder: rounding it rounds the exact quotient
FDivided(s, qr, e) ==
    FRound(s, BAdd(BAdd(qr[1], qr[1]), IF qr[2] = <<>> THEN <<>> ELSE <<1>>), e - 1)

\* y[2] is moved up to fill its top limb
FDiv(x, y) ==
    IF FIsZero(x) THEN FZero
    ELSE Only({FDivided((x[1] + y[1]) % 2, qr, x[3] - y[3] - QuotBits) :
                 qr \in {DivLoop(x[2], <<>>, BShl(y[2], TopFill), QuotLimbs)}})

\* x + y for x[3] >= y[3], neither zero; a is x's mantissa at y's exponent
FAligned(x, y, a) ==
    IF x[1] = y[1] THEN FRound(x[1], BAdd(a, y[2]), y[3])
    ELSE IF BLess(a, y[2]) THEN FRound(y[1], BSub(y[2], a), y[3])
    ELSE FRound(x[1], BSub(a, y[2]), y[3])

\* beyond this difference of exponents the smaller term is less than a
\* quarter of the last place of the larger and the sum is the larger
FarApart == 2 * Precision

FOrdered(x, y) ==
    IF x[3] - y[3] > FarApart THEN x
    ELSE Only({FAligned(x, y, a) : a \in {BShl(x[2], x[3] - y[3])}})

FAdd(x, y) ==
    IF FIsZero(x) THEN y
    ELSE IF FIsZero(y) THEN x
    ELSE IF x[3] >= y[3] THEN FOrdered(x, y)
    ELSE FOrdered(y, x)

FSub(x, y) == FAdd(x, FNeg(y))

-----------------------------------------------------------------------------
(* The arithmetic of the elimination, on either kind of number.  An        *)
(* operation on two rationals is exact; with a float operand it is the     *)
(* float operation, the other operand converted as Python converts an int  *)
(* (the rationals that meet a float are the integers the source writes as  *)
(* literals: 0, 1, -1, and what exact arithmetic makes of them)            *)

IsFloat(x) == Len(x) = 3
AsFloat(x) == IF IsFloat(x) THEN x ELSE FromInt(x[1])

NumDiv(x, y) ==
    IF IsFloat(x) \/ IsFloat(y) THEN FDiv(AsFloat(x), AsFloat(y)) ELSE RDiv(x, y)
NumMul(x, y) ==
    IF IsFloat(x) \/ IsFloat(y) THEN FMul(AsFloat(x), AsFloat(y)) ELSE RMul(x, y)
NumSub(x, y) ==
    IF IsFloat(x) \/ IsFloat(y) THEN FSub(AsFloat(x), AsFloat(y)) ELSE RSub(x, y)
NumGt(x, y) ==
    IF IsFloat(x) \/ IsFloat(y) THEN FGt(AsFloat(x), AsFloat(y)) ELSE RGt(x, y)
NumAbs(x) == IF IsFloat(x) THEN FAbs(x) ELSE RAbs(x)
NumEq(x, y) ==
    IF IsFloat(x) \/ IsFloat(y) THEN AsFloat(x) = AsFloat(y) ELSE x = y

-----------------------------------------------------------------------------
(* Text *)

Digits == <<"0", "1", "2", "3", "4", "5", "6", "7", "8", "9">>
DigitSet == {Digits[i] : i \in 1..10}
DigitVal(c) == (CHOOSE i \in 1..10 : Digits[i] = c) - 1
IsSpace(c) == c \in {" ", "\t", "\n"}

\* the positions of s that hold no whitespace
Inked(s) == {i \in 1..Len(s) : ~IsSpace(s[i])}

\* str.strip(): s without its leading and trailing whitespace
Strip(s) ==
    IF Inked(s) = {} THEN <<>> ELSE SubSeq(s, Min(Inked(s)), Max(Inked(s)))

\* the i-th smallest element of a set of numbers
Nth(S, i) == CHOOSE x \in S : Cardinality({y \in S : y < x}) = i - 1

\* the pieces of s that start after the positions in starts (0: the start of
\* s) and end before the next position in ends
Pieces(s, starts, ends) ==
    [i \in 1..Cardinality(starts) |->
        SubSeq(s, Nth(starts, i) + 1,
               Min({e \in ends : e > Nth(starts, i)} \cup {Len(s) + 1}) - 1)]

\* str.split(sep): the pieces between separators, empty pieces included
SplitOn(s, sep) ==
    Only({Pieces(s, {0} \cup at, at) : at \in {{i \in 1..Len(s) : s[i] = sep}}})

\* str.split(): the maximal runs of non-whitespace characters
SplitWS(s) ==
    Only({Pieces(s, {i - 1 : i \in {j \in ink : j - 1 \notin ink}},
                 (1..Len(s)) \ ink) : ink \in {Inked(s)}})

RECURSIVE DigitsVal(_, _)
DigitsVal(s, acc) ==
    IF s = <<>> THEN acc ELSE DigitsVal(Tail(s), 10 * acc + DigitVal(Head(s)))

RECURSIVE Pow10(_)
Pow10(n) == IF n = 0 THEN 1 ELSE 10 * Pow10(n - 1)

AllDigits(s) == \A i \in 1..Len(s) : s[i] \in DigitSet

\* digits before and after the decimal point to a number; ValueError
\* (BadNum) without a digit or with another character
FloatDigits(ip, fp) ==
    IF ~AllDigits(ip) \/ ~AllDigits(fp) \/ Len(ip) + Len(fp) = 0
    THEN BadNum
    ELSE Norm(DigitsVal(ip \o fp, 0), Pow10(Len(fp)))

Unsigned(body) ==
    LET dots == {i \in 1..Len(body) : body[i] = "."}
        p == CHOOSE i \in dots : TRUE
    IN  IF dots = {} THEN FloatDigits(body, <<>>)
        ELSE IF Cardinality(dots) > 1 THEN BadNum
        ELSE FloatDigits(SubSeq(body, 1, p - 1), SubSeq(body, p + 1, Len(body)))

Negated(x) == IF x = BadNum THEN BadNum ELSE <<-x[1], x[2]>>

\* float(token) for tokens over digits, "-", "." and other characters:
\* an optional sign, digits with at most one decimal point and at least one
\* digit; anything else raises ValueError (BadNum)
Float(tok) ==
    IF tok # <<>> /\ Head(tok) = "-"
    THEN Only({Negated(x) : x \in {Unsigned(Tail(tok))}})
    ELSE Unsigned(tok)

\* [i for i in ... if i != ""]
NonEmpty(lines) == SelectSeq(lines, LAMBDA l : l # <<>>)

\* [float(i) for i in j.strip().split()]
RowOf(line) ==
    Only({[j \in 1..Len(toks) |-> Float(toks[j])] : toks \in {SplitWS(Strip(line))}})

\* the rows of the lines kept from s.strip().split("\n")
RowsOf(s) ==
    Only({[i \in 1..Len(lines) |-> RowOf(lines[i])] :
            lines \in {NonEmpty(SplitOn(Strip(s), "\n"))}})

\* the list, or None when a float() raised ValueError
ListOrNone(rows) ==
    IF \E i \in 1..Len(rows) : \E j \in 1..Len(rows[i]) : rows[i][j] = BadNum
    THEN NotAList
    ELSE [list |-> TRUE, rows |-> rows]

parseMatrix(s) == Only({ListOrNone(rows) : rows \in {RowsOf(s)}})

\* Invalid (-1) for an invalid matrix, <<rows, cols>> otherwise
isValidMatrix(mat) ==
    IF ~mat.list THEN Invalid
    ELSE IF \E i \in 1..Len(mat.rows) : Len(mat.rows[i]) # Len(mat.rows[1])
         THEN Invalid
    ELSE IF Len(mat.rows) = 0 \/ Len(mat.rows[1]) = 0 THEN Invalid
    ELSE <<Len(mat.rows), Len(mat.rows[1])>>

-----------------------------------------------------------------------------
(* Rendering *)

RECURSIVE NatToStr(_)
NatToStr(n) ==
    IF n < 10 THEN <<Digits[n + 1]>>
    ELSE Append(NatToStr(n \div 10), Digits[(n % 10) + 1])

\* str(int(el))
IntToStr(n) == IF n < 0 THEN <<"-">> \o NatToStr(-n) ELSE NatToStr(n)

RECURSIVE DropZeros(_)
DropZeros(s) ==
    IF s # <<>> /\ s[Len(s)] = "0" THEN DropZeros(SubSeq(s, 1, Len(s) - 1)) ELSE s

\* the second argument of round(el, 4)
Places == 4

\* |el| * 10^Places rounded to the nearest integer, a tie to the even one
RoundedUnits(el) ==
    LET n == Abs(el[1]) * Pow10(Places)
        q == n \div el[2]
        r == n % el[2]
    IN  IF 2 * r > el[2] \/ (2 * r = el[2] /\ q % 2 = 1) THEN q + 1 ELSE q

\* the decimals of t units of 10^-Places without trailing zeros, at least one
Decimals(t) ==
    Only({IF dec = <<>> THEN <<"0">> ELSE dec :
            dec \in {DropZeros([i \in 1..Places |->
                        Digits[((t \div Pow10(Places - i)) % 10) + 1]])}})

\* str(round(el, 4)) for a value with a fractional part
RoundToStr(el) ==
    Only({(IF el[1] < 0 THEN <<"-">> ELSE <<>>)
          \o NatToStr(t \div Pow10(Places)) \o <<".">> \o Decimals(t) :
            t \in {RoundedUnits(el)}})

\* str(round(el, 4)) if int(el) != el else str(int(el))
ElToStr(el) == IF RIsInt(el) THEN IntToStr(el[1]) ELSE RoundToStr(el)

Spaces(n) == [i \in 1..n |-> " "]

\* "{: >w}".format(t)
RJust(t, w) == IF Len(t) >= w THEN t ELSE Spaces(w - Len(t)) \o t

RECURSIVE Concat(_)
Concat(ss) == IF ss = <<>> THEN <<>> ELSE Head(ss) \o Concat(Tail(ss))

\* stringArr: every element rendered
StringArr(mat) ==
    [i \in 1..Len(mat) |-> [j \in 1..Len(mat[i]) |-> ElToStr(mat[i][j])]]

\* colSize: the longest rendering of the column plus one, the first column
\* one less
ColSize(sa) ==
    [j \in 1..Len(sa[1]) |->
        Max({Len(sa[i][j]) + 1 : i \in 1..Len(sa)}) - (IF j = 1 THEN 1 ELSE 0)]

\* every row right-aligned column by column and ended by a line break
Lines(sa, colSize) ==
    Concat([i \in 1..Len(sa) |->
               Concat([j \in 1..Len(sa[1]) |-> RJust(sa[i][j], colSize[j])])
               \o <<"\n">>])

\* s[:-1] of the lines of stringArr
Aligned(sa) ==
    Only({SubSeq(s, 1, Len(s) - 1) :
            s \in {Only({Lines(sa, cs) : cs \in {ColSize(sa)}})}})

matrixToStr(mat) == Only({Aligned(sa) : sa \in {StringArr(mat)}})

-----------------------------------------------------------------------------
(* The selected regions of the view *)

\* view.sel(): the positions of the selected regions, in order
Sel(v) == SelectSeq([i \in 1..Len(v) |-> i], LAMBDA i : v[i].sel)

WithDim(mat, d) == IF d = Invalid THEN <<None, Invalid>> ELSE <<mat.rows, d>>

\* (A, dim) of the index-th selection; (None, -1) for an invalid matrix.
\* The handlers call it only with index < len(view.sel()).
getMatrixFromSel(v, index) ==
    Only({WithDim(mat, isValidMatrix(mat)) :
            mat \in {parseMatrix(v[Sel(v)[index + 1]].text)}})

\* view.replace(edit, region, matrixToStr(m)); i is the region's position
writeMatrix(v, i, mat) == [v EXCEPT ![i].text = matrixToStr(mat)]

\* view.sel().subtract(region); view.erase(edit, region)
clearMatrix(v, i) == [v EXCEPT ![i] = [text |-> <<>>, sel |-> FALSE]]

-----------------------------------------------------------------------------
(* Gauss-Jordan elimination *)

\* the if of the for loop: row i becomes the pivot row when the absolute
\* value of its entry exceeds pivot_val, and pivot_val becomes the entry
Picked(M, kk, i, acc) ==
    IF NumGt(NumAbs(El(M, i, kk)), acc.val)
    THEN [row |-> i, val |-> El(M, i, kk)]
    ELSE acc

\* the for loop that selects pivot_row and pivot_val, from row i on
RECURSIVE PivotScan(_, _, _, _, _)
PivotScan(M, kk, i, rows, acc) ==
    IF i >= rows THEN acc
    ELSE Only({PivotScan(M, kk, i + 1, rows, nx) : nx \in {Picked(M, kk, i, acc)}})

SelectPivot(M, hh, kk, d) ==
    PivotScan(M, kk, hh, d[1], [row |-> 0, val |-> Rat(-1)])

\* A[h], A[pivot_row] = A[pivot_row], A[h]
Swapped(M, hh, pr) ==
    [i \in 1..Len(M) |->
        IF i = hh + 1 THEN M[pr + 1] ELSE IF i = pr + 1 THEN M[hh + 1] ELSE M[i]]

\* [i/pivot_val for i in A[h]]
Divided(row, pv) == [j \in 1..Len(row) |-> NumDiv(row[j], pv)]

\* the for loop over the rows: column k of every row but h is set to 0 and
\* f times row h is taken from its columns k+1..dim[1]-1
Cleared(sw, hh, kk, d, rowh) ==
    [i \in 1..Len(sw) |->
        IF i = hh + 1 THEN rowh
        ELSE IF i > d[1] THEN sw[i]
        ELSE [j \in 1..Len(sw[i]) |->
                IF j - 1 < kk \/ j - 1 >= d[2] THEN sw[i][j]
                ELSE IF j - 1 = kk THEN Zero
                ELSE NumSub(sw[i][j], NumMul(rowh[j], sw[i][kk + 1]))]]

\* the loop body once a non-zero pivot p is selected: after the swap row h
\* is the old pivot row
Reduce(M, hh, kk, d, p) ==
    Only({Cleared(sw, hh, kk, d, rowh) :
            sw \in {Swapped(M, hh, p.row)},
            rowh \in {Divided(M[p.row + 1], p.val)}})

\* the loop body after the pivot p is selected, on the loop state [A, h, k]
StepWith(st, d, p) ==
    IF NumEq(p.val, Zero)
    THEN [A |-> st.A, h |-> st.h, k |-> st.k + 1]
    ELSE [A |-> Reduce(st.A, st.h, st.k, d, p), h |-> st.h + 1, k |-> st.k + 1]

\* one iteration of the while loop
RrefStep(st, d) ==
    Only({StepWith(st, d, p) : p \in {SelectPivot(st.A, st.h, st.k, d)}})

RECURSIVE RrefRun(_, _)
RrefRun(st, d) ==
    IF st.h < d[1] /\ st.k < d[2]
    THEN Only({RrefRun(nx, d) : nx \in {RrefStep(st, d)}})
    ELSE st.A

\* the matrix A holds when _rref(A, dim) returns
_rref(M, d) == Only({RrefRun([A |-> mm, h |-> 0, k |-> 0], d) : mm \in {M}})

-----------------------------------------------------------------------------
(* The command handlers: each gives the view, the error shown and the      *)
(* handler's locals when it returns                                        *)

ErrMatrices == "Incorrect number of matrices"
ErrSelections == "Incorrect number of selections"
ErrInput == "Invalid input"
ErrAlign == "Dimensions do not align"
ErrScalar == "At least one input must be a scalar"
ErrSquare == "Matrix must be square"
ErrSingular == "Matrix is not invertible"

\* displayError(msg); return
Fail(v, msg, a, b) == [view |-> v, err |-> msg, A |-> a, B |-> b, C |-> None]
Done(v, a, b, c) == [view |-> v, err |-> NoError, A |-> a, B |-> b, C |-> c]

\* the write and the clear that end a binary command: the result goes to
\* view.sel()[target], then view.sel()[other] is cleared
WriteAndClear(v, target, other, a, b, c) ==
    Only({Done(clearMatrix(w, Sel(w)[other + 1]), a, b, c) :
            w \in {writeMatrix(v, Sel(v)[target + 1], c)}})

\* the write that ends a unary command
WriteOne(v, a, b, c) == Done(writeMatrix(v, Sel(v)[1], c), a, b, c)

Sum(a, b, d) ==
    [i \in 1..d[1] |-> [j \in 1..d[2] |-> RAdd(a[i][j], b[i][j])]]

addMatrices(v, a, b) ==
    IF a[1] = None \/ b[1] = None THEN Fail(v, ErrInput, a[1], b[1])
    ELSE IF a[2][1] # b[2][1] THEN Fail(v, ErrAlign, a[1], b[1])
    ELSE IF a[2][2] # b[2][2] THEN Fail(v, ErrAlign, a[1], b[1])
    ELSE Only({WriteAndClear(v, 1, 0, a[1], b[1], c) :
                 c \in {Sum(a[1], b[1], a[2])}})

add(v) ==
    IF Len(Sel(v)) # 2 THEN Fail(v, ErrMatrices, None, None)
    ELSE Only({addMatrices(v, a, b) :
                 a \in {getMatrixFromSel(v, 0)}, b \in {getMatrixFromSel(v, 1)}})

Product(a, b, dimA, dimB) ==
    [i \in 1..dimA[1] |->
        [j \in 1..dimB[2] |->
            SumSeq([x \in 1..dimA[2] |-> RMul(a[i][x], b[x][j])])]]

multMatrices(v, a, b) ==
    IF a[1] = None \/ b[1] = None THEN Fail(v, ErrInput, a[1], b[1])
    ELSE IF a[2][2] # b[2][1] THEN Fail(v, ErrAlign, a[1], b[1])
    ELSE Only({WriteAndClear(v, 1, 0, a[1], b[1], c) :
                 c \in {Product(a[1], b[1], a[2], b[2])}})

mult(v) ==
    IF Len(Sel(v)) # 2 THEN Fail(v, ErrMatrices, None, None)
    ELSE Only({multMatrices(v, a, b) :
                 a \in {getMatrixFromSel(v, 0)}, b \in {getMatrixFromSel(v, 1)}})

\* the branch scale takes on the dimensions: "A" (A is the scalar, out =
\* True), "B" (B is taken as the scalar, out = False) or "none" (error)
ScalarOperand(dimA, dimB) ==
    IF dimA[1] = 1 /\ dimA[2] = 1 THEN "A"
    ELSE IF dimB[1] = 1 /\ dimB[1] = 1 THEN "B"
    ELSE "none"

\* a scale that always writes to the second selection
ScaleTargetSecond(which) == 1

\* out: the position in view.sel() that scale writes to
ScaleTarget(which) == IF which = "A" THEN 1 ELSE 0

\* C[i][j] *= k for every element
Scaled(c, kv) ==
    [i \in 1..Len(c) |-> [j \in 1..Len(c[1]) |-> RMul(c[i][j], kv)]]

\* C aliases the operand that is not the scalar and is scaled in place, so
\* that operand's local holds the scaled matrix on exit
scaleWrite(v, which, out, a, b, c) ==
    WriteAndClear(v, out, 1 - out,
                  IF which = "A" THEN a ELSE c,
                  IF which = "A" THEN c ELSE b, c)

scaleBy(v, a, b, which) ==
    IF which = "none" THEN Fail(v, ErrScalar, a, b)
    ELSE Only({scaleWrite(v, which, ScaleTarget(which), a, b, c) :
                 c \in {IF which = "A" THEN Scaled(b, a[1][1])
                        ELSE Scaled(a, b[1][1])}})

scaleMatrices(v, a, b) ==
    IF a[1] = None \/ b[1] = None THEN Fail(v, ErrInput, a[1], b[1])
    ELSE scaleBy(v, a[1], b[1], ScalarOperand(a[2], b[2]))

scale(v) ==
    IF Len(Sel(v)) # 2 THEN Fail(v, ErrSelections, None, None)
    ELSE Only({scaleMatrices(v, a, b) :
                 a \in {getMatrixFromSel(v, 0)}, b \in {getMatrixFromSel(v, 1)}})

Transposed(a, d) == [i \in 1..d[2] |-> [j \in 1..d[1] |-> a[j][i]]]

transposeMatrix(v, a) ==
    IF a[1] = None THEN Fail(v, ErrInput, a[1], None)
    ELSE Only({WriteOne(v, a[1], None, c) : c \in {Transposed(a[1], a[2])}})

transpose(v) ==
    IF Len(Sel(v)) # 1 THEN Fail(v, ErrMatrices, None, None)
    ELSE Only({transposeMatrix(v, a) : a \in {getMatrixFromSel(v, 0)}})

Identity(n) == [i \in 1..n |-> [j \in 1..n |-> IF i = j THEN One ELSE Zero]]

\* B = [A[i] + I[i] ...]
Augmented(a, n) == [i \in 1..n |-> a[i] \o Identity(n)[i]]

\* the augmented matrix reduced over the width of A only
AugmentedDimLeft(n) == <<n, n>>

\* the dim that inverse gives _rref
AugmentedDim(n) == <<n, n * 2>>

\* the loop over newI: TRUE when no entry differs from the identity's
IsIdentity(newI, n) ==
    \A i \in 1..n : \A j \in 1..n :
        NumEq(newI[i][j], IF i = j THEN One ELSE Zero)

\* newI = [B[i][:dimA[0]] ...]
LeftHalf(M, n) == [i \in 1..n |-> SubSeq(M[i], 1, n)]
\* A_inv = [B[i][dimA[0]:] ...]
RightHalf(M, n) == [i \in 1..n |-> SubSeq(M[i], n + 1, Len(M[i]))]

\* an inverse that writes the right half before it checks the left half
inverseCheckWriteFirst(v, a, n, b) ==
    IF ~IsIdentity(LeftHalf(b, n), n)
    THEN Fail(writeMatrix(v, Sel(v)[1], RightHalf(b, n)), ErrSingular, a, b)
    ELSE WriteOne(v, a, b, RightHalf(b, n))

\* the identity check on the reduced augmented matrix b, and the write
inverseCheck(v, a, n, b) ==
    IF ~IsIdentity(LeftHalf(b, n), n) THEN Fail(v, ErrSingular, a, b)
    ELSE WriteOne(v, a, b, RightHalf(b, n))

inverseMatrix(v, a) ==
    IF a[1] = None THEN Fail(v, ErrInput, a[1], None)
    ELSE IF a[2][1] # a[2][2] THEN Fail(v, ErrSquare, a[1], None)
    ELSE Only({inverseCheck(v, a[1], a[2][1], b) :
                 b \in {_rref(Augmented(a[1], a[2][1]), AugmentedDim(a[2][1]))}})

inverse(v) ==
    IF Len(Sel(v)) # 1 THEN Fail(v, ErrMatrices, None, None)
    ELSE Only({inverseMatrix(v, a) : a \in {getMatrixFromSel(v, 0)}})

rrefMatrix(v, a) ==
    IF a[1] = None THEN Fail(v, ErrInput, a[1], None)
    \* A is reduced in place and written
    ELSE Only({WriteOne(v, r, None, r) : r \in {_rref(a[1], a[2])}})

rref(v) ==
    IF Len(Sel(v)) # 1 THEN Fail(v, ErrMatrices, None, None)
    ELSE Only({rrefMatrix(v, a) : a \in {getMatrixFromSel(v, 0)}})

formatMatrix(v, a) ==
    IF a[1] = None THEN Fail(v, ErrInput, a[1], None)
    ELSE WriteOne(v, a[1], None, a[1])

format(v) ==
    IF Len(Sel(v)) # 1 THEN Fail(v, ErrMatrices, None, None)
    ELSE Only({formatMatrix(v, a) : a \in {getMatrixFromSel(v, 0)}})

Operations == {"add", "mult", "scale", "transpose", "inv", "rref", "format"}

run(v, operation) ==
    CASE operation = "add" -> add(v)
      [] operation = "mult" -> mult(v)
      [] operation = "scale" -> scale(v)
      [] operation = "transpose" -> transpose(v)
      [] operation = "inv" -> inverse(v)
      [] operation = "rref" -> rref(v)
      [] operation = "format" -> format(v)

-----------------------------------------------------------------------------
(* Inputs *)

Matrices(r, c) == [1..r -> [1..c -> {Rat(e) : e \in Entries}]]
AllMatrices == UNION {Matrices(r, c) : r \in 1..MaxRows, c \in 1..MaxCols}

Filled(r, c, f) == [i \in 1..r |-> [j \in 1..c |-> Rat(f)]]
\* text that is no matrix: a non-numeric token, ragged rows, nothing
BadTexts == {<<"x">>, <<"1", "\n", "1", " ", "1">>, <<>>}
FewTexts ==
    {matrixToStr(Filled(r, c, f)) : r \in 1..MaxRows, c \in 1..MaxCols, f \in Fills}
    \cup BadTexts

Region(t) == [text |-> t, sel |-> TRUE]
\* one selected matrix of any content, or up to MaxSel selections of few texts
Views ==
    {<<Region(matrixToStr(mat))>> : mat \in AllMatrices}
    \cup UNION {[1..n -> {Region(t) : t \in FewTexts}] : n \in 0..MaxSel}

Alphabet == {"1", "-", " ", "\n", "x"}
Texts == UNION {[1..n -> Alphabet] : n \in 0..MaxTextLen}
BlankLines == {<<" ">>, <<"\t">>, <<" ", "\t">>}

-----------------------------------------------------------------------------
(* Spec: one command run on a view *)

Idle ==
    /\ op = "" /\ err = NoError
    /\ A = None /\ B = None /\ C = None
    /\ dim = <<0, 0>> /\ h = 0 /\ k = 0
    /\ pivot_row = 0 /\ pivot_val = Rat(-1)
    /\ pass = 0 /\ first = None

NoText == txt = <<>> /\ parsed = NotAList /\ vdim = Invalid /\ orig = <<>>

Init ==
    /\ pc = "idle"
    /\ view \in Views
    /\ Idle
    /\ NoText

\* the handler returns and leaves r
Ran(operation, r) ==
    /\ view' = r.view
    /\ err' = r.err
    /\ A' = r.A
    /\ B' = r.B
    /\ C' = r.C
    /\ op' = operation
    /\ pc' = "done"
    /\ UNCHANGED <<dim, h, k, pivot_row, pivot_val, pass, first,
                   txt, parsed, vdim, orig>>

Add ==
    /\ pc = "idle"
    /\ \E r \in {run(view, "add")} : Ran("add", r)

Mult ==
    /\ pc = "idle"
    /\ \E r \in {run(view, "mult")} : Ran("mult", r)

Scale ==
    /\ pc = "idle"
    /\ \E r \in {run(view, "scale")} : Ran("scale", r)

Transpose ==
    /\ pc = "idle"
    /\ \E r \in {run(view, "transpose")} : Ran("transpose", r)

Inv ==
    /\ pc = "idle"
    /\ \E r \in {run(view, "inv")} : Ran("inv", r)

Rref ==
    /\ pc = "idle"
    /\ \E r \in {run(view, "rref")} : Ran("rref", r)

Format ==
    /\ pc = "idle"
    /\ \E r \in {run(view, "format")} : Ran("format", r)

Next == Add \/ Mult \/ Scale \/ Transpose \/ Inv \/ Rref \/ Format

Spec == Init /\ [][Next]_vars

-----------------------------------------------------------------------------
(* SpecRref: the while loop of _rref, run on a matrix and then on its      *)
(* result                                                                  *)

InitRref ==
    /\ pc = "loop"
    /\ A \in AllMatrices
    /\ dim = <<NRows(A), NCols(A)>>
    /\ h = 0 /\ k = 0
    /\ pivot_row = 0 /\ pivot_val = Rat(-1)
    /\ pass = 1 /\ first = None
    /\ view = <<>> /\ op = "" /\ err = NoError /\ B = None /\ C = None
    /\ NoText

RrefFrame == UNCHANGED <<view, op, err, B, C, txt, parsed, vdim, orig>>

\* the for loop over rows h..dim[0]-1
Scan ==
    /\ pc = "loop"
    /\ h < dim[1] /\ k < dim[2]
    /\ \E p \in {SelectPivot(A, h, k, dim)} :
          pivot_row' = p.row /\ pivot_val' = p.val
    /\ pc' = "pivot"
    /\ UNCHANGED <<A, dim, h, k, pass, first>>
    /\ RrefFrame

\* the rest of the loop body: k += 1 and continue on a zero pivot_val,
\* otherwise swap, divide, clear the column, h += 1, k += 1
Apply(st) ==
    /\ A' = st.A
    /\ h' = st.h
    /\ k' = st.k
    /\ pc' = "loop"
    /\ UNCHANGED <<dim, pivot_row, pivot_val, pass, first>>
    /\ RrefFrame

Skip ==
    /\ pc = "pivot"
    /\ NumEq(pivot_val, Zero)
    /\ Apply(StepWith([A |-> A, h |-> h, k |-> k], dim,
                      [row |-> pivot_row, val |-> pivot_val]))

Eliminate ==
    /\ pc = "pivot"
    /\ ~NumEq(pivot_val, Zero)
    /\ \E st \in {StepWith([A |-> A, h |-> h, k |-> k], dim,
                           [row |-> pivot_row, val |-> pivot_val])} : Apply(st)

\* the while condition fails: _rref returns
Return ==
    /\ pc = "loop"
    /\ ~(h < dim[1] /\ k < dim[2])
    /\ pc' = "done"
    /\ UNCHANGED <<A, dim, h, k, pivot_row, pivot_val, pass, first>>
    /\ RrefFrame

\* _rref is called on the matrix it has just reduced
Again ==
    /\ pc = "done"
    /\ pass = 1
    /\ first' = A
    /\ pass' = 2
    /\ h' = 0 /\ k' = 0
    /\ pc' = "loop"
    /\ UNCHANGED <<A, dim, pivot_row, pivot_val>>
    /\ RrefFrame

NextRref == Scan \/ Skip \/ Eliminate \/ Return \/ Again

SpecRref == InitRref /\ [][NextRref]_vars

-----------------------------------------------------------------------------
(* SpecParse: a text is parsed and validated, a blank line is typed        *)
(* between two of its rows, and it is parsed again                         *)

InitParse ==
    /\ pc = "typed"
    /\ txt \in Texts
    /\ parsed = NotAList /\ vdim = Invalid /\ orig = <<>>
    /\ view = <<>>
    /\ Idle

ParseFrame ==
    UNCHANGED <<view, op, err, A, B, C, dim, h, k, pivot_row, pivot_val, pass, first>>

Parse ==
    /\ pc \in {"typed", "edited"}
    /\ \E mat \in {parseMatrix(txt)} :
          parsed' = mat /\ vdim' = isValidMatrix(mat)
    /\ pc' = IF pc = "typed" THEN "parsed" ELSE "reparsed"
    /\ UNCHANGED <<txt, orig>>
    /\ ParseFrame

\* position p holds a line break with a row before it and a row after it
BetweenRows(s, p) ==
    /\ s[p] = "\n"
    /\ \E i \in 1..(p - 1) : ~IsSpace(s[i])
    /\ \E i \in (p + 1)..Len(s) : ~IsSpace(s[i])

InsertBlankLine ==
    /\ pc = "parsed"
    /\ vdim # Invalid
    /\ \E p \in 1..Len(txt) : \E w \in BlankLines :
          /\ BetweenRows(txt, p)
          /\ txt' = SubSeq(txt, 1, p) \o w \o <<"\n">> \o SubSeq(txt, p + 1, Len(txt))
    /\ orig' = <<parsed, vdim>>
    /\ pc' = "edited"
    /\ UNCHANGED <<parsed, vdim>>
    /\ ParseFrame

NextParse == Parse \/ InsertBlankLine

SpecParse == InitParse /\ [][NextParse]_vars

-----------------------------------------------------------------------------
(* SpecFloat: the inverse command on the text of one selection, with the   *)
(* arithmetic of the source's floats.  The text the command writes is not  *)
(* computed: C is the matrix handed to writeMatrix, None when writeMatrix  *)
(* is not reached                                                          *)

\* entries of the matrices SpecFloat starts from
FloatEntries == {0, 1, 49}
FloatTexts ==
    {matrixToStr(mat) :
        mat \in UNION {[1..r -> [1..c -> {Rat(e) : e \in FloatEntries}]] :
                          r \in 1..MaxRows, c \in 1..MaxCols}}

\* float(i) of every token: the float nearest to the number the token writes
Floats(mat) ==
    [i \in 1..Len(mat) |->
        [j \in 1..Len(mat[i]) |-> FDiv(FromInt(mat[i][j][1]), FromInt(mat[i][j][2]))]]

\* the identity check on the reduced augmented matrix b, and the write
inverseFloatCheck(a, n, b) ==
    IF ~IsIdentity(LeftHalf(b, n), n) THEN Fail(<<>>, ErrSingular, a, b)
    ELSE Done(<<>>, a, b, RightHalf(b, n))

inverseFloatMatrix(a, n) ==
    Only({inverseFloatCheck(a, n, b) :
            b \in {_rref(Augmented(a, n), AugmentedDim(n))}})

\* inverse from the parsed selection a = (A, dimA) on
inverseFloat(a) ==
    IF a[1] = None THEN Fail(<<>>, ErrInput, a[1], None)
    ELSE IF a[2][1] # a[2][2] THEN Fail(<<>>, ErrSquare, Floats(a[1]), None)
    ELSE Only({inverseFloatMatrix(m, a[2][1]) : m \in {Floats(a[1])}})

InitFloat ==
    /\ pc = "idle"
    /\ txt \in FloatTexts
    /\ parsed = NotAList /\ vdim = Invalid /\ orig = <<>>
    /\ view = <<>>
    /\ Idle

InvFloat ==
    /\ pc = "idle"
    /\ \E mat \in {parseMatrix(txt)} :
          /\ parsed' = mat
          /\ vdim' = isValidMatrix(mat)
          /\ \E r \in {inverseFloat(WithDim(mat, isValidMatrix(mat)))} :
                err' = r.err /\ A' = r.A /\ B' = r.B /\ C' = r.C
    /\ op' = "inv"
    /\ pc' = "done"
    /\ UNCHANGED <<view, dim, h, k, pivot_row, pivot_val, pass, first, txt, orig>>

NextFloat == InvFloat

SpecFloat == InitFloat /\ [][NextFloat]_vars

-----------------------------------------------------------------------------
(* Vocabulary of the properties *)

IsSquare(M) == M # None /\ NRows(M) = NCols(M)
Is1x1(M) == NRows(M) = 1 /\ NCols(M) = 1

\* M without its first row and its j-th column
Minor(M, j) ==
    [i \in 1..(Len(M) - 1) |->
        [c \in 1..(Len(M) - 1) |-> M[i + 1][IF c < j THEN c ELSE c + 1]]]

\* the determinant, by expansion along the first row
RECURSIVE Det(_)
Det(M) ==
    IF Len(M) = 1 THEN M[1][1]
    ELSE SumSeq([j \in 1..Len(M) |->
                    RMul(IF j % 2 = 1 THEN M[1][j] ELSE RSub(Zero, M[1][j]),
                         Det(Minor(M, j)))])

\* the column of the leading non-zero entry of a row, 0 for a zero row
Lead(row) ==
    IF \A j \in 1..Len(row) : row[j] = Zero THEN 0
    ELSE Min({j \in 1..Len(row) : row[j] # Zero})

IsRREF(M) ==
    \A i \in 1..Len(M) :
        Lead(M[i]) # 0 =>
            /\ M[i][Lead(M[i])] = One
            /\ \A r \in 1..Len(M) : r # i => M[r][Lead(M[i])] = Zero
            /\ i > 1 => (Lead(M[i - 1]) # 0 /\ Lead(M[i - 1]) < Lead(M[i]))

Erased == [text |-> <<>>, sel |-> FALSE]

-----------------------------------------------------------------------------
(* Properties *)

\* C1: when _rref returns, the matrix is in reduced row-echelon form: the
\* leading entry of every non-zero row is 1, is the only non-zero entry of
\* its column and lies strictly to the right of the leading entry of the
\* row above.
C1_RrefResultIsReduced == (pc = "done" /\ pass = 1) => IsRREF(A)

\* C2: the inverse command run on an invertible matrix A shows no error and
\* writes a matrix R with A.R = I.
C2_InvertibleIsInverted ==
    (pc = "done" /\ op = "inv" /\ IsSquare(A) /\ Det(A) # Zero) =>
        /\ err = NoError
        /\ C # None
        /\ view[1].text = matrixToStr(C)
        /\ Product(A, C, <<NRows(A), NCols(A)>>, <<NRows(C), NCols(C)>>)
              = Identity(NRows(A))

\* C3: the inverse command run on a singular matrix shows "Matrix is not
\* invertible" and writes nothing: no matrix is handed to writeMatrix.
C3_SingularIsRefused ==
    (/\ pc = "done" /\ op = "inv"
     /\ vdim # Invalid /\ vdim[1] = vdim[2]
     /\ Det(parsed.rows) = Zero) =>
        (err = ErrSingular /\ C = None)

\* the same refusal where the arithmetic is exact, with the view left as it
\* was: a singular matrix is never reduced to the identity
SingularIsRefusedWhenExact ==
    [][(pc = "idle" /\ op' = "inv" /\ IsSquare(A') /\ Det(A') = Zero) =>
          (err' = ErrSingular /\ view' = view)]_vars

\* C4: _rref run on the result of _rref leaves it unchanged.
C4_RrefIdempotent == (pc = "done" /\ pass = 2) => A = first

\* C5: scale gives a result exactly when one operand, and only one, is
\* 1x1; otherwise it shows the scalar error and clears no region.
C5_ScaleNeedsOneScalar ==
    (pc = "done" /\ op = "scale" /\ A # None /\ B # None) =>
        /\ (err = NoError) <=> (Is1x1(A) # Is1x1(B))
        /\ (Is1x1(A) = Is1x1(B)) =>
              (err = ErrScalar /\ \A i \in 1..Len(view) : view[i].sel)

\* C6: a line of spaces or tabs typed between two rows of a well-formed
\* matrix text changes neither the parsed matrix nor its dimensions.
C6_BlankLineIgnored ==
    pc = "reparsed" => (parsed = orig[1] /\ vdim = orig[2])

\* C7: a command that ends in an error leaves the view as it was; the view
\* changes only on a run that shows no error and has its result written.
C7_ErrorLeavesView ==
    [][(pc = "idle" /\ pc' = "done") =>
          /\ err' # NoError => view' = view
          /\ view' # view =>
                /\ err' = NoError
                /\ C' # None
                /\ \E i \in 1..Len(view') : view'[i].text = matrixToStr(C')]_vars

\* C7 witness: a command has ended in the error found last, after the
\* reduction.
C7_ErrorSeen == pc = "done" /\ err = ErrSingular /\ view[1].sel

Target == IF op = "scale" /\ ~Is1x1(A) THEN 1 ELSE 2

C9_PivotIsLargest ==
    pc = "pivot" =>
        /\ pivot_row \in h..(dim[1] - 1)
        /\ \A i \in h..(dim[1] - 1) :
              ~RGt(RAbs(El(A, i, k)), RAbs(El(A, pivot_row, k)))
        /\ pivot_val = Zero => \A i \in h..(dim[1] - 1) : El(A, i, k) = Zero

\* C10: whenever the inverse command writes a matrix R for a square matrix
\* A, A.R = I.
C10_WrittenInverseIsRight ==
    (pc = "done" /\ op = "inv" /\ err = NoError) =>
        /\ view[1].text = matrixToStr(C)
        /\ Product(A, C, <<NRows(A), NCols(A)>>, <<NRows(C), NCols(C)>>)
              = Identity(NRows(A))

\* C10 witness: an inverse was written for a matrix whose first pivot had
\* to be brought up from a lower row.
C10_SwappedInverseSeen ==
    /\ pc = "done" /\ op = "inv" /\ err = NoError
    /\ NRows(A) > 1 /\ A[1][1] = Zero

=============================================================================
